---- MODULE Spec2Model ----
(***************************************************************************)
(* Model of src/native/src/lib.rs: the exported function                   *)
(*                                                                         *)
(*     #[napi] pub fn fast_add(a: u32, b: u32) -> u32 { a + b }            *)
(*                                                                         *)
(* TLC's integers are 32-bit signed, so a u32 is kept at its real width    *)
(* as a pair <<hi, lo>> of 16-bit halves and the addition is carried out   *)
(* half by half with a carry, as an adder does.                            *)
(*                                                                         *)
(* Rust's `+` on u32 is not one function of (a, b): with overflow checks   *)
(* compiled in (the default of the dev profile) an overflowing sum panics, *)
(* without them (the default of the release profile) it wraps modulo 2^32. *)
(* The source fixes neither, so the build is a choice made in Init.        *)
(***************************************************************************)
EXTENDS Integers, Sequences, FiniteSets, TLC

VARIABLES
    overflow_checks, \* TRUE: built with overflow checks, FALSE: without
    pc,              \* pc[t]: "idle" | "entered" | "done", per caller
    req,             \* req[t]: the <<a, b>> the host passed in caller t's call
    locals,          \* locals[f]: the parameters a, b held in frame f
    out,             \* out[t]: what the host got back from caller t's call
    abc,             \* the <<a, b, c>> of the two chained evaluations
    left,            \* fast_add(fast_add(a, b), c)
    right            \* fast_add(a, fast_add(b, c))

vars == <<overflow_checks, pc, req, locals, out, abc, left, right>>

callVars == <<pc, req, locals, out>>
chainVars == <<abc, left, right>>

----------------------------------------------------------------------------
(* Bounds of the model *)

NumCallers == 2
MaxSmall == 3

----------------------------------------------------------------------------
(* u32 *)

U32Bits == 32

Half == 2 ^ (U32Bits \div 2)

U32 == (0 .. Half - 1) \X (0 .. Half - 1)

Zero == <<0, 0>>

U32_MAX == <<Half - 1, Half - 1>>

\* the u32 of a natural number small enough for TLC
FromNat(n) == <<n \div Half, n % Half>>

\* a < b on u32
Lt(x, y) == x[1] < y[1] \/ (x[1] = y[1] /\ x[2] < y[2])

----------------------------------------------------------------------------
(* Outcomes of a call *)

None == [kind |-> "none", val |-> Zero]

Ok(v) == [kind |-> "ok", val |-> v]

Panic == [kind |-> "panic", val |-> Zero]

----------------------------------------------------------------------------
(* The function *)

\* the 32-bit adder: the low 32 bits of a + b and the carry out of bit 31
overflowing_add(a, b) ==
    LET lo == a[2] + b[2]
        hi == a[1] + b[1] + (lo \div Half)
    IN  [val |-> <<hi % Half, lo % Half>>, overflow |-> hi >= Half]

\* a.wrapping_sub(b) / a - b
fast_add_sub(checks, a, b) ==
    LET lo == a[2] - b[2]
        borrow == IF lo < 0 THEN 1 ELSE 0
        hi == a[1] - b[1] - borrow
    IN  IF hi < 0 /\ checks
        THEN Panic
        ELSE Ok(<<(hi + Half) % Half, (lo + Half) % Half>>)

\* a + a
fast_add_twice(checks, a, b) ==
    LET r == overflowing_add(a, a)
    IN  IF r.overflow /\ checks THEN Panic ELSE Ok(r.val)

\* a.saturating_add(b)
fast_add_saturating(checks, a, b) ==
    LET r == overflowing_add(a, b)
    IN  IF r.overflow THEN Ok(U32_MAX) ELSE Ok(r.val)

\* the sum kept wider than 32 bits (a as u64 + b as u64)
fast_add_wide(checks, a, b) ==
    LET lo == a[2] + b[2]
        hi == a[1] + b[1] + (lo \div Half)
    IN  Ok(<<hi, lo % Half>>)

\* an overflow check that is off by one: a sum of exactly u32::MAX panics
fast_add_strict(checks, a, b) ==
    LET r == overflowing_add(a, b)
    IN  IF (r.overflow \/ r.val = U32_MAX) /\ checks THEN Panic ELSE Ok(r.val)

\* a + b
fast_add(checks, a, b) ==
    LET r == overflowing_add(a, b)
    IN  IF r.overflow /\ checks THEN Panic ELSE Ok(r.val)

\* one static slot for the parameters of every call
SharedFrame(t) == 1

\* a and b are passed by value: every call has its own copy
Frame(t) == t

----------------------------------------------------------------------------
(* Concurrent callers *)

Callers == 1 .. NumCallers

Inputs == {FromNat(n) : n \in 0 .. MaxSmall} \cup {U32_MAX}

ChainInputs ==
    Inputs \cup {<<0, Half - 1>>, <<1, 0>>, <<Half \div 2, 0>>, <<Half - 1, Half - 2>>}

NoChain == [step |-> 0, inner |-> None, outer |-> None]

IdleCallers ==
    /\ pc = [t \in Callers |-> "idle"]
    /\ req = [t \in Callers |-> <<Zero, Zero>>]
    /\ locals = [t \in Callers |-> <<Zero, Zero>>]
    /\ out = [t \in Callers |-> None]

Init ==
    /\ overflow_checks \in BOOLEAN
    /\ IdleCallers
    /\ abc = <<Zero, Zero, Zero>>
    /\ left = NoChain
    /\ right = NoChain

\* the host calls fast_add(a, b) on caller t: the parameters are bound
Call(t, a, b) ==
    /\ pc[t] = "idle"
    /\ pc' = [pc EXCEPT ![t] = "entered"]
    /\ req' = [req EXCEPT ![t] = <<a, b>>]
    /\ locals' = [locals EXCEPT ![Frame(t)] = <<a, b>>]
    /\ UNCHANGED <<overflow_checks, out, chainVars>>

\* the body: a + b on the parameters, returned to the host or panicking
Exec(t) ==
    /\ pc[t] = "entered"
    /\ pc' = [pc EXCEPT ![t] = "done"]
    /\ out' = [out EXCEPT ![t] =
                 fast_add(overflow_checks, locals[Frame(t)][1], locals[Frame(t)][2])]
    /\ UNCHANGED <<overflow_checks, req, locals, chainVars>>

\* the host is done with the result; the caller may call again
Return(t) ==
    /\ pc[t] = "done"
    /\ pc' = [pc EXCEPT ![t] = "idle"]
    /\ req' = [req EXCEPT ![t] = <<Zero, Zero>>]
    /\ locals' = [locals EXCEPT ![Frame(t)] = <<Zero, Zero>>]
    /\ out' = [out EXCEPT ![t] = None]
    /\ UNCHANGED <<overflow_checks, chainVars>>

Next ==
    \E t \in Callers :
        \/ \E a \in Inputs, b \in Inputs : Call(t, a, b)
        \/ Exec(t)
        \/ Return(t)

Spec == Init /\ [][Next]_vars

----------------------------------------------------------------------------
(* Chained calls: fast_add(fast_add(a, b), c) and fast_add(a, fast_add(b, c)) *)

InitChain ==
    /\ overflow_checks \in BOOLEAN
    /\ IdleCallers
    /\ abc \in ChainInputs \X ChainInputs \X ChainInputs
    /\ left = NoChain
    /\ right = NoChain

\* the outcome of an expression whose inner call gave `inner`: a panic of the
\* inner call is the outcome of the whole expression
AfterInner(inner) ==
    IF inner.kind = "ok"
    THEN [step |-> 1, inner |-> inner, outer |-> None]
    ELSE [step |-> 2, inner |-> inner, outer |-> inner]

LeftInner ==
    /\ left.step = 0
    /\ left' = AfterInner(fast_add(overflow_checks, abc[1], abc[2]))
    /\ UNCHANGED <<overflow_checks, callVars, abc, right>>

LeftOuter ==
    /\ left.step = 1
    /\ left' = [left EXCEPT !.step = 2,
                            !.outer = fast_add(overflow_checks, left.inner.val, abc[3])]
    /\ UNCHANGED <<overflow_checks, callVars, abc, right>>

RightInner ==
    /\ right.step = 0
    /\ right' = AfterInner(fast_add(overflow_checks, abc[2], abc[3]))
    /\ UNCHANGED <<overflow_checks, callVars, abc, left>>

RightOuter ==
    /\ right.step = 1
    /\ right' = [right EXCEPT !.step = 2,
                              !.outer = fast_add(overflow_checks, abc[1], right.inner.val)]
    /\ UNCHANGED <<overflow_checks, callVars, abc, left>>

NextChain == LeftInner \/ LeftOuter \/ RightInner \/ RightOuter

SpecChain == InitChain /\ [][NextChain]_vars

----------------------------------------------------------------------------
(* The arithmetic the properties are stated in: exact sums, as naturals    *)
(* written <<top, hi, lo>> in base 2^16 (top counts multiples of 2^32).    *)

Exact(hiSum, loSum) ==
    LET hi == hiSum + (loSum \div Half)
    IN  <<hi \div Half, hi % Half, loSum % Half>>

ExactSum(a, b) == Exact(a[1] + b[1], a[2] + b[2])

ExactSum3(a, b, c) == Exact(a[1] + b[1] + c[1], a[2] + b[2] + c[2])

\* n <= 4294967295
FitsU32(n) == n[1] = 0

\* n mod 2^32, as a u32
Mod32(n) == <<n[2], n[3]>>

Fits(r) == FitsU32(ExactSum(r[1], r[2]))

Swap(r) == <<r[2], r[1]>>

Done(t) == pc[t] = "done"

----------------------------------------------------------------------------
(* Properties of single and concurrent calls, under Spec *)

\* C1: a call whose exact sum a + b is at most 4294967295 ends without an
\* error and returns exactly a + b; in particular fast_add(2, 3) = 5.
C1_SumWhenFits ==
    \A t \in Callers :
        /\ (Done(t) /\ Fits(req[t]))
              => out[t] = Ok(Mod32(ExactSum(req[t][1], req[t][2])))
        /\ (Done(t) /\ req[t] = <<FromNat(2), FromNat(3)>>)
              => out[t] = Ok(FromNat(5))

C1_Witness ==
    \E t \in Callers :
        Done(t) /\ req[t] = <<FromNat(2), FromNat(3)>> /\ out[t] = Ok(FromNat(5))

\* C2: there is one overflow policy (fail, wrap modulo 2^32, or saturate at
\* 4294967295) that every overflowing call follows however the function was
\* built: the outcome a finished overflowing call had, and the outcome the
\* same call has under each build, all follow that one policy.
Policies == {"fail", "wrap", "saturate"}

Follows(p, r, o) ==
    CASE p = "fail" -> o = Panic
      [] p = "wrap" -> o = Ok(Mod32(ExactSum(r[1], r[2])))
      [] p = "saturate" -> o = Ok(U32_MAX)

C2_OnePolicyInEveryBuild ==
    \E p \in Policies :
        \A t \in Callers :
            (Done(t) /\ ~Fits(req[t])) =>
                /\ Follows(p, req[t], out[t])
                /\ \A checks \in BOOLEAN :
                       Follows(p, req[t], fast_add(checks, req[t][1], req[t][2]))

\* C3: a finished call of (a, b) and a finished call of (b, a) have the same
\* outcome: the same value, or both panicked.
C3_Commutative ==
    \A t \in Callers, u \in Callers :
        (Done(t) /\ Done(u) /\ req[t] = Swap(req[u])) => out[t] = out[u]

C3_Witness ==
    \E t \in Callers, u \in Callers :
        /\ t # u /\ Done(t) /\ Done(u)
        /\ req[t] = Swap(req[u])
        /\ req[t][1] # req[t][2]
        /\ ~Fits(req[t])
        /\ out[t] = out[u]

\* C4: a finished call of (a, 0) returned a and did not fail, also for
\* a = 4294967295.
C4_Identity ==
    \A t \in Callers :
        (Done(t) /\ req[t][2] = Zero) => out[t] = Ok(req[t][1])

C4_Witness ==
    \E t \in Callers :
        Done(t) /\ req[t] = <<U32_MAX, Zero>> /\ out[t] = Ok(U32_MAX)

\* C5: a finished call either returned or panicked, and it panicked only if
\* a + b exceeds 4294967295; a call whose sum fits never failed.
C5_OnlyOverflowFails ==
    \A t \in Callers :
        Done(t) =>
            /\ out[t].kind \in {"ok", "panic"}
            /\ out[t].kind = "panic" => ~Fits(req[t])
            /\ Fits(req[t]) => out[t].kind = "ok"

C5_Witness ==
    \E t \in Callers, u \in Callers :
        /\ Done(t) /\ out[t] = Panic /\ ~Fits(req[t])
        /\ Done(u) /\ out[u].kind = "ok" /\ Fits(req[u])

\* C6: whatever the other callers do in the meantime, a finished call has
\* the outcome the same call of (a, b) has on its own.
C6_NoInterference ==
    \A t \in Callers :
        Done(t) => out[t] = fast_add(overflow_checks, req[t][1], req[t][2])

C6_Witness ==
    \E t \in Callers, u \in Callers :
        /\ t # u
        /\ Done(t) /\ pc[u] = "entered"
        /\ req[t] # req[u]
        /\ ~Fits(req[t]) /\ Fits(req[u])

\* C7: every returned value is an unsigned 32-bit number, 0..4294967295.
C7_ResultInRange ==
    \A t \in Callers :
        (Done(t) /\ out[t].kind = "ok") => out[t].val \in U32

C7_Witness ==
    \E t \in Callers :
        /\ Done(t) /\ req[t] = <<U32_MAX, U32_MAX>>
        /\ out[t] = Ok(<<Half - 1, Half - 2>>)

\* C8: a finished call returned (a + b) mod 2^32 or panicked; it panicked
\* only on overflow, and an overflowing call that returned gave a value
\* strictly below both a and b (so never the saturated 4294967295).
C8_WrapOrAbort ==
    \A t \in Callers :
        Done(t) =>
            /\ \/ out[t] = Ok(Mod32(ExactSum(req[t][1], req[t][2])))
               \/ out[t] = Panic /\ ~Fits(req[t])
            /\ (out[t].kind = "ok" /\ ~Fits(req[t])) =>
                   /\ Lt(out[t].val, req[t][1])
                   /\ Lt(out[t].val, req[t][2])

C8_Witness ==
    \E t \in Callers :
        Done(t) /\ req[t] = <<U32_MAX, FromNat(1)>> /\ out[t] = Ok(Zero)

\* C10: two finished calls with the same arguments have the same outcome,
\* whatever calls were made before either of them.
C10_Deterministic ==
    \A t \in Callers, u \in Callers :
        (Done(t) /\ Done(u) /\ req[t] = req[u]) => out[t] = out[u]

C10_Witness ==
    \E t \in Callers, u \in Callers :
        /\ t # u /\ Done(t) /\ Done(u)
        /\ req[t] = req[u]
        /\ req[t] = <<U32_MAX, FromNat(2)>>
        /\ out[t] = out[u]

----------------------------------------------------------------------------
(* Properties of chained calls, under SpecChain *)

ChainsDone == left.step = 2 /\ right.step = 2

\* C9: when both chained evaluations have ended they have the same outcome:
\* the value a + b + c when it is at most 4294967295, and otherwise either
\* both panicked or both returned (a + b + c) mod 2^32.
C9_Associative ==
    ChainsDone =>
        LET n == ExactSum3(abc[1], abc[2], abc[3])
        IN  /\ left.outer = right.outer
            /\ FitsU32(n) => left.outer = Ok(Mod32(n))
            /\ ~FitsU32(n) =>
                   \/ left.outer = Panic /\ right.outer = Panic
                   \/ left.outer = Ok(Mod32(n)) /\ right.outer = Ok(Mod32(n))

C9_Witness ==
    /\ ChainsDone
    /\ Fits(<<abc[1], abc[2]>>)
    /\ ~Fits(<<abc[2], abc[3]>>)
    /\ abc[1] # Zero
    /\ left.outer = right.outer

====
